---- MODULE Spec2Model ----
(***************************************************************************)
(* Model of winwin-cli's knowledge-base search (kb_search):                *)
(*   Spec       the BM25Indexer corpus with its persisted corpus.json and  *)
(*              its ranking model, BM25Indexer.search and                  *)
(*              KnowledgeBaseIndexer.search                                *)
(*   SpecRank   the filter, sort and top-N step of search on its own       *)
(*   SpecFed    KnowledgeBaseSearcher over two knowledge bases, with the   *)
(*              search, enable and disable commands                       *)
(*   SpecIndex  KnowledgeBaseIndexer: discovery, index builds, index info, *)
(*              search and status on one knowledge base                    *)
(*   SpecConfig the add, remove, enable, disable, list and index commands  *)
(*              on the configuration files                                 *)
(*   SpecWrite  add_document and delete_document when corpus.json cannot   *)
(*              be written                                                 *)
(*                                                                         *)
(* Text is a sequence of one-character strings.  Scores are fixed-point    *)
(* integers in units of 1/10000.                                           *)
(***************************************************************************)
EXTENDS Integers, Sequences, FiniteSets, TLC

\* ------------------------------------------------------------------ bounds

\* most documents the corpus of the modelled runs holds
MaxDocs == 3
\* search limits range over 0..MaxLimit
MaxLimit == 3

\* ------------------------------------------------------------- input sets

Range(s) == {s[i] : i \in 1..Len(s)}

Paths == { <<"d", "/", "x">>, <<"d", "2", "/", "y">>, <<"z">> }
\* the (title, content) pairs documents are added with: contents "", "a", "a b"
Texts == { <<"T1", <<>> >>, <<"T1", <<"a">> >>, <<"T2", <<"a", " ", "b">> >> }
\* "", "a", "b", "c"
Queries == { <<>>, <<"a">>, <<"b">>, <<"c">> }
Limits == {0, 1, MaxLimit}
\* the dirs argument: None, or a non-empty list of directory strings
NoDirs == <<>>
DirLists == { NoDirs, << <<"d">> >>, << <<"z">>, <<"d", "/">> >> }

\* a corpus entry, the dict of add_document
Doc(path, title, content) == [path |-> path, title |-> title, content |-> content]

\* ---------------------------------------------------------------- strings

\* Python's `d in s` on strings: d occurs in s as a contiguous substring
IsSubstring(d, s) ==
    \E k \in 0..(Len(s) - Len(d)) :
        \A j \in 1..Len(d) : s[k + j] = d[j]

\* ---------------------------------------------------------------- _tokenize

IsSpace(ch) == ch = " "

RECURSIVE TokenizeFrom(_, _, _, _)
\* jieba.cut on text of letters and blanks: each maximal run of letters is
\* one term, each whitespace character is a term of its own
TokenizeFrom(text, i, cur, acc) ==
    IF i > Len(text)
    THEN IF cur = <<>> THEN acc ELSE Append(acc, cur)
    ELSE IF IsSpace(text[i])
         THEN TokenizeFrom(text, i + 1, <<>>,
                  Append(IF cur = <<>> THEN acc ELSE Append(acc, cur), <<text[i]>>))
         ELSE TokenizeFrom(text, i + 1, Append(cur, text[i]), acc)

tokenize(text) == TokenizeFrom(text, 1, <<>>, <<>>)

\* ------------------------------------------------------- corpus.json codec

\* json.dump of the corpus: a list of objects, each the key/value pairs
\* path, title, content in insertion order
DumpDoc(doc) == << <<"path", doc.path>>, <<"title", doc.title>>, <<"content", doc.content>> >>

json_dump(c) == [i \in 1..Len(c) |-> DumpDoc(c[i])]

\* the value an object holds under a key
Member(obj, key) == obj[CHOOSE i \in 1..Len(obj) : obj[i][1] = key][2]

LoadDoc(obj) == [path |-> Member(obj, "path"), title |-> Member(obj, "title"),
                 content |-> Member(obj, "content")]

json_load(text) == [i \in 1..Len(text) |-> LoadDoc(text[i])]

\* json.load raises JSONDecodeError on a text that ends within an object: a
\* member that has its key and no value
json_parses(text) ==
    \A i \in 1..Len(text) : \A m \in 1..Len(text[i]) : Len(text[i][m]) = 2

NoFile == [exists |-> FALSE, text |-> <<>>]

\* a corpus.json that was cut off within its first object: [{"path"
Truncated == [exists |-> TRUE, text |-> << << <<"path">> >> >>]

\* ------------------------------------------------ BM25Okapi (rank_bm25)
\* The ranking model BM25Okapi(tokenized_corpus) keeps the tokenized
\* documents; corpus_size, doc_len, doc_freqs, idf and avgdl derive from them.

NoModel == [present |-> FALSE, docs |-> <<>>]

Quot(a, b) == IF a >= 0 THEN a \div b ELSE -((-a) \div b)

\* 10000 * ln(n) for the odd n that occur: ln(m + 0.5) = ln(2m + 1) - ln(2)
LnOdd(n) ==
    CASE n = 1 -> 0
      [] n = 3 -> 10986
      [] n = 5 -> 16094
      [] n = 7 -> 19459
      [] n = 9 -> 21972
      [] n = 11 -> 23979
      [] n = 13 -> 25649

Vocabulary(docs) == UNION {Range(docs[i]) : i \in 1..Len(docs)}

\* nd[word]: the number of documents the word occurs in
DocFreq(docs, w) == Cardinality({i \in 1..Len(docs) : w \in Range(docs[i])})

\* doc_freqs[i][word]: occurrences of the word in document i
TermFreq(docs, i, w) == Cardinality({k \in 1..Len(docs[i]) : docs[i][k] = w})

RECURSIVE TotalLen(_, _)
TotalLen(docs, n) == IF n = 0 THEN 0 ELSE Len(docs[n]) + TotalLen(docs, n - 1)

\* log(corpus_size - freq + 0.5) - log(freq + 0.5)
RawIdf(docs, w) ==
    LnOdd(2 * (Len(docs) - DocFreq(docs, w)) + 1) - LnOdd(2 * DocFreq(docs, w) + 1)

RECURSIVE IdfSum(_, _)
IdfSum(docs, words) ==
    IF words = {} THEN 0
    ELSE LET w == CHOOSE x \in words : TRUE
         IN  RawIdf(docs, w) + IdfSum(docs, words \ {w})

\* epsilon * average_idf, epsilon = 0.25
Eps(docs) == Quot(IdfSum(docs, Vocabulary(docs)), 4 * Cardinality(Vocabulary(docs)))

\* idf[word]: a negative idf is replaced by eps; a word not indexed counts 0
Idf(docs, w) ==
    IF w \notin Vocabulary(docs) THEN 0
    ELSE IF RawIdf(docs, w) < 0 THEN Eps(docs) ELSE RawIdf(docs, w)

\* idf * f * (k1 + 1) / (f + k1 * (1 - b + b * doc_len / avgdl)), k1 = 1.5, b = 0.75,
\* avgdl = total / corpus_size: all brought to one integer fraction
TermScore(docs, i, w) ==
    LET f == TermFreq(docs, i, w)
        total == TotalLen(docs, Len(docs))
    IN  IF f = 0 THEN 0
        ELSE Quot(Idf(docs, w) * 20 * f * total,
                  8 * f * total + 3 * total + 9 * Len(docs[i]) * Len(docs))

RECURSIVE DocScore(_, _, _, _)
DocScore(docs, i, q, k) ==
    IF k = 0 THEN 0 ELSE TermScore(docs, i, q[k]) + DocScore(docs, i, q, k - 1)

\* a score: a float that may be NaN
Num(v) == [nan |-> FALSE, v |-> v]
NaN == [nan |-> TRUE, v |-> 0]

\* bm25.get_scores(tokenized_query): one score per indexed document
get_scores(model, q) ==
    [i \in 1..Len(model.docs) |-> Num(DocScore(model.docs, i, q, Len(q)))]

\* BM25Okapi(tokenized_corpus) computes average_idf = idf_sum / len(idf), the
\* idf sum over the number of distinct words: a ZeroDivisionError when no
\* document holds any term (jieba.cut("") yields no term)
BM25Raises(docs) == Vocabulary(docs) = {}

\* _build_bm25: [raised, bm25]; self.bm25 keeps its old value when the
\* constructor raises
build_bm25(old, c) ==
    IF c = <<>> THEN [raised |-> FALSE, bm25 |-> NoModel]
    ELSE LET docs == [i \in 1..Len(c) |-> tokenize(c[i].content)]
         IN  IF BM25Raises(docs)
             THEN [raised |-> TRUE, bm25 |-> old]
             ELSE [raised |-> FALSE, bm25 |-> [present |-> TRUE, docs |-> docs]]

\* ------------------------------------------------------------ BM25Indexer
\* An indexer is [corpus, bm25, file]: self.corpus, self.bm25 and the
\* corpus.json of its index directory.  Every operation yields the indexer
\* it leaves behind and whether it raised.

PathsOf(c) == {c[i].path : i \in 1..Len(c)}

\* _save_index: write the corpus, then rebuild the ranking model
save_index(S, c) ==
    LET b == build_bm25(S.bm25, c)
    IN  [corpus |-> c, bm25 |-> b.bm25,
         file |-> [exists |-> TRUE, text |-> json_dump(c)], raised |-> b.raised]

\* add_document without the lookup of an existing entry
UpsertAlwaysAppends(c, path, title, content) == Append(c, Doc(path, title, content))

\* add_document that drops the existing entry and appends the new one
UpsertMovesToEnd(c, path, title, content) ==
    Append(SelectSeq(c, LAMBDA doc : doc.path # path), Doc(path, title, content))

\* the corpus after add_document: the first entry with this path is replaced
\* in place, else the document is appended
Upsert(c, path, title, content) ==
    IF \E i \in 1..Len(c) : c[i].path = path
    THEN LET i == CHOOSE k \in 1..Len(c) :
                      c[k].path = path /\ \A j \in 1..(k - 1) : c[j].path # path
         IN  [c EXCEPT ![i] = Doc(path, title, content)]
    ELSE Append(c, Doc(path, title, content))

add_document(S, path, title, content) == save_index(S, Upsert(S.corpus, path, title, content))

RECURSIVE add_documents(_, _, _)
\* add_documents: add_document for each document in turn; the first one that
\* raises ends the loop
add_documents(S, documents, k) ==
    IF k > Len(documents) THEN [S EXCEPT !.raised = FALSE]
    ELSE LET R == add_document(S, documents[k].path, documents[k].title, documents[k].content)
         IN  IF R.raised THEN R ELSE add_documents(R, documents, k + 1)

delete_document(S, path) ==
    save_index(S, SelectSeq(S.corpus, LAMBDA doc : doc.path # path))

\* clear that leaves corpus.json in place
ClearKeepsFile(S) == [corpus |-> <<>>, bm25 |-> NoModel, file |-> S.file, raised |-> FALSE]

clear(S) == [corpus |-> <<>>, bm25 |-> NoModel, file |-> NoFile, raised |-> FALSE]

\* BM25Indexer(index_dir): _load_index on the directory's corpus.json; an
\* exception of json.load or of _build_bm25 leaves the caller without indexer
load_index(file) ==
    IF file.exists
    THEN IF ~json_parses(file.text)
         THEN [corpus |-> <<>>, bm25 |-> NoModel, file |-> file, raised |-> TRUE]
         ELSE LET c == json_load(file.text)
                  b == build_bm25(NoModel, c)
              IN  [corpus |-> c, bm25 |-> b.bm25, file |-> file, raised |-> b.raised]
    ELSE [corpus |-> <<>>, bm25 |-> NoModel, file |-> file, raised |-> FALSE]

count(S) == Len(S.corpus)

\* ------------------------------------------------------ BM25Indexer.search

\* a dirs filter that admits every path
DirMatchAdmitsAll(dirs, path) == TRUE

\* the dirs filter: no list (or an empty one) admits every path, else the
\* path must contain one of the directory strings
DirMatch(dirs, path) ==
    dirs = <<>> \/ \E k \in 1..Len(dirs) : IsSubstring(dirs[k], path)

\* a filter that also skips the scores below zero
FilteredSkipsNegative(c, scores, dirs) ==
    {i \in 1..Len(scores) :
         ~scores[i].nan /\ scores[i].v >= 0 /\ i <= Len(c) /\ DirMatch(dirs, c[i].path)}

\* the positions search keeps: score not NaN and path within dirs
Filtered(c, scores, dirs) ==
    {i \in 1..Len(scores) : ~scores[i].nan /\ i <= Len(c) /\ DirMatch(dirs, c[i].path)}

RECURSIVE SortDesc(_, _)
\* list.sort(key = score, reverse = True): descending, stable
SortDesc(idx, scores) ==
    IF idx = {} THEN <<>>
    ELSE LET best == CHOOSE i \in idx : \A j \in idx :
                         \/ scores[i].v > scores[j].v
                         \/ scores[i].v = scores[j].v /\ i <= j
         IN  <<best>> \o SortDesc(idx \ {best}, scores)

\* filtered[:limit] for limit >= 0
Take(s, n) == SubSeq(s, 1, IF n < Len(s) THEN n ELSE Len(s))

Hit(c, scores, i) == [path |-> c[i].path, title |-> c[i].title, score |-> scores[i].v]

\* the filter, sort and top-N of search over a score vector; self.corpus[i]
\* raises IndexError for a score that is past the end of the corpus
rank(c, scores, limit, dirs) ==
    IF \E i \in 1..Len(scores) : ~scores[i].nan /\ i > Len(c)
    THEN [hits |-> <<>>, raised |-> TRUE]
    ELSE LET order == Take(SortDesc(Filtered(c, scores, dirs), scores), limit)
         IN  [hits |-> [k \in 1..Len(order) |-> Hit(c, scores, order[k])], raised |-> FALSE]

\* a search that ranks the corpus for the empty query too
SearchRanksEmptyQuery(S, query, limit, dirs) ==
    IF ~S.bm25.present
    THEN [hits |-> <<>>, raised |-> FALSE]
    ELSE rank(S.corpus, get_scores(S.bm25, tokenize(query)), limit, dirs)

search(S, query, limit, dirs) ==
    IF query = <<>> \/ ~S.bm25.present
    THEN [hits |-> <<>>, raised |-> FALSE]
    ELSE rank(S.corpus, get_scores(S.bm25, tokenize(query)), limit, dirs)

\* ----------------------------------------------- KnowledgeBaseIndexer.search

\* SearchResult(score = ...) is validated score >= 0.0
ValidSearchResult(hit) == hit.score >= 0

\* a new BM25Indexer on the index directory, its search, and one
\* SearchResult per hit; any exception on the way ends the call
kb_search(file, query, limit, dirs) ==
    LET I == load_index(file)
        r == search(I, query, limit, dirs)
    IN  IF I.raised \/ r.raised THEN [hits |-> <<>>, raised |-> TRUE]
        ELSE IF \E k \in 1..Len(r.hits) : ~ValidSearchResult(r.hits[k])
             THEN [hits |-> <<>>, raised |-> TRUE]
             ELSE [hits |-> r.hits, raised |-> FALSE]

\* ------------------------------------------------------------------ state

VARIABLES
    corpus,       \* self.corpus of the BM25Indexer in use
    bm25,         \* self.bm25 of that indexer
    file,         \* corpus.json in its index directory
    last,         \* the last call: its name, arguments and outcome
    since_clear,  \* "clear" after clear, "deleted" once a delete_document
                  \* followed it, "no" from the next add_document on
    scores,       \* a score vector handed to the ranking step on its own
    store,        \* the knowledge-bases.yaml files: the default one and the
                  \* one WINWIN_KB_CONFIG names
    environ,      \* whether WINWIN_KB_CONFIG is set
    indexes,      \* corpus.json of each configured knowledge base, by name
    tree,         \* the source files under the root of a knowledge base
    index_dir     \* whether the index directory of that knowledge base exists

vars == <<corpus, bm25, file, last, since_clear, scores,
          store, environ, indexes, tree, index_dir>>

\* the knowledge-base level state, which the BM25Indexer operations leave alone
kbvars == <<store, environ, indexes, tree, index_dir>>

NoStore == [default |-> <<>>, env |-> <<>>]

\* no knowledge base is configured and none is being indexed
InitKB ==
    /\ store = NoStore
    /\ environ = FALSE
    /\ indexes = <<>>
    /\ tree = <<>>
    /\ index_dir = FALSE

Self == [corpus |-> corpus, bm25 |-> bm25, file |-> file, raised |-> FALSE]

Call(op) == [op |-> op, path |-> <<>>, title |-> "", content |-> <<>>, existed |-> FALSE,
             query |-> <<>>, limit |-> 0, dirs |-> NoDirs, raised |-> FALSE, hits |-> <<>>]

Install(R) ==
    /\ corpus' = R.corpus
    /\ bm25' = R.bm25
    /\ file' = R.file

Init ==
    /\ corpus = <<>>
    /\ bm25 = NoModel
    /\ file = NoFile
    /\ last = Call("init")
    /\ since_clear = "no"
    /\ scores = <<>>
    /\ InitKB

\* ---------------------------------------------------------------- actions

AddDocument ==
    \E path \in Paths, text \in Texts :
        /\ path \in PathsOf(corpus) \/ Len(corpus) < MaxDocs
        /\ LET title == text[1]
               content == text[2]
               R == add_document(Self, path, title, content)
           IN  /\ Install(R)
               /\ last' = [Call("add_document") EXCEPT !.path = path, !.title = title,
                              !.content = content, !.existed = path \in PathsOf(corpus),
                              !.raised = R.raised]
        /\ since_clear' = "no"
        /\ UNCHANGED <<scores, kbvars>>

\* the batches add_documents is called with: two documents
Batches == {<<Doc(p1, "T1", c1), Doc(p2, "T2", <<"a">>)>> :
                p1 \in Paths, c1 \in {<<>>, <<"a">>}, p2 \in {<<"z">>}}

AddDocuments ==
    \E documents \in Batches :
        /\ Cardinality(PathsOf(corpus) \cup PathsOf(documents)) <= MaxDocs
        /\ LET R == add_documents(Self, documents, 1)
           IN  /\ Install(R)
               /\ last' = [Call("add_documents") EXCEPT !.raised = R.raised]
        /\ since_clear' = "no"
        /\ UNCHANGED <<scores, kbvars>>

DeleteDocument ==
    \E path \in Paths :
        /\ LET R == delete_document(Self, path)
           IN  /\ Install(R)
               /\ last' = [Call("delete_document") EXCEPT !.path = path,
                              !.existed = path \in PathsOf(corpus), !.raised = R.raised]
        /\ since_clear' = IF since_clear = "no" THEN "no" ELSE "deleted"
        /\ UNCHANGED <<scores, kbvars>>

Clear ==
    /\ Install(clear(Self))
    /\ last' = Call("clear")
    /\ since_clear' = "clear"
    /\ UNCHANGED <<scores, kbvars>>

\* a new BM25Indexer is constructed on the same index directory and used
\* from then on; when the constructor raises, the old instance stays in use
Reopen ==
    LET R == load_index(file)
    IN  /\ IF R.raised THEN UNCHANGED <<corpus, bm25, file>> ELSE Install(R)
        /\ last' = [Call("load_index") EXCEPT !.raised = R.raised]
        /\ UNCHANGED <<since_clear, scores, kbvars>>

Search ==
    \E query \in Queries, limit \in Limits, dirs \in DirLists :
        LET r == search(Self, query, limit, dirs)
        IN  /\ last' = [Call("search") EXCEPT !.query = query, !.limit = limit,
                           !.dirs = dirs, !.raised = r.raised, !.hits = r.hits]
            /\ UNCHANGED <<corpus, bm25, file, since_clear, scores, kbvars>>

KBSearch ==
    \E query \in Queries, limit \in {1, MaxLimit}, dirs \in {NoDirs} :
        LET r == kb_search(file, query, limit, dirs)
        IN  /\ last' = [Call("kb_search") EXCEPT !.query = query, !.limit = limit,
                           !.dirs = dirs, !.raised = r.raised, !.hits = r.hits]
            /\ UNCHANGED <<corpus, bm25, file, since_clear, scores, kbvars>>

Next ==
    \/ AddDocument
    \/ AddDocuments
    \/ DeleteDocument
    \/ Clear
    \/ Reopen
    \/ Search
    \/ KBSearch

Spec == Init /\ [][Next]_vars

\* ------------------------------------------------- the ranking step alone
\* search's filter, sort and top-N applied to score vectors that get_scores
\* may hand it: one score per corpus entry, NaN and negative ones included

RankCorpora == { <<>>,
                 << Doc(<<"z">>, "T1", <<"a">>) >>,
                 << Doc(<<"z">>, "T1", <<"a">>), Doc(<<"d", "/", "x">>, "T2", <<"a">>) >>,
                 << Doc(<<"d", "/", "x">>, "T1", <<"a">>), Doc(<<"z">>, "T2", <<"a">>),
                    Doc(<<"d", "2", "/", "y">>, "T1", <<"a">>) >> }
ScoreValues == { NaN, Num(-5), Num(0), Num(7) }

InitRank ==
    /\ corpus \in RankCorpora
    /\ scores \in [1..Len(corpus) -> ScoreValues]
    /\ bm25 = NoModel
    /\ file = NoFile
    /\ last = Call("init")
    /\ since_clear = "no"
    /\ InitKB

Rank ==
    \E limit \in Limits, dirs \in DirLists :
        LET r == rank(corpus, scores, limit, dirs)
        IN  /\ last' = [Call("rank") EXCEPT !.limit = limit, !.dirs = dirs,
                           !.raised = r.raised, !.hits = r.hits]
            /\ UNCHANGED <<corpus, bm25, file, since_clear, scores, kbvars>>

NextRank == Rank

SpecRank == InitRank /\ [][NextRank]_vars

\* ------------------------------------------------- the configuration store
\* A knowledge base is configured by [name, enabled]; its root path and its
\* index directory go with its name.

Config(name, enabled) == [name |-> name, enabled |-> enabled]

\* loader.save: the list written under knowledge_bases, one mapping per
\* configuration
DumpConfig(c) == << <<"name", c.name>>, <<"enabled", c.enabled>> >>

yaml_dump(configs) == [i \in 1..Len(configs) |-> DumpConfig(configs[i])]

\* _parse_config: KnowledgeBaseConfig(**kb_data) for each entry of the list
parse_config(text) ==
    [i \in 1..Len(text) |-> Config(Member(text[i], "name"), Member(text[i], "enabled"))]

\* KnowledgeBaseLoader().load(): no config_path, the default file is read
loader_load(st) == parse_config(st.default)

\* KnowledgeBaseLoader().save(configs): the default file is written
loader_save(st, configs) == [st EXCEPT !.default = yaml_dump(configs)]

\* load_global_config: the file WINWIN_KB_CONFIG names when it is set, else
\* the default file
load_global_config(st, env) ==
    IF env THEN parse_config(st.env) ELSE parse_config(st.default)

\* the first configuration of that name, 0 when there is none
FindConfig(configs, name) ==
    IF \E i \in 1..Len(configs) : configs[i].name = name
    THEN CHOOSE i \in 1..Len(configs) :
             configs[i].name = name /\ \A j \in 1..(i - 1) : configs[j].name # name
    ELSE 0

\* the disable command: [store, raised], raised standing for exit status 1
disable(st, name) ==
    LET configs == loader_load(st)
        i == FindConfig(configs, name)
    IN  IF i = 0 THEN [store |-> st, raised |-> TRUE]
        ELSE [store |-> loader_save(st, [configs EXCEPT ![i].enabled = FALSE]),
              raised |-> FALSE]

\* the enable command
enable(st, name) ==
    LET configs == loader_load(st)
        i == FindConfig(configs, name)
    IN  IF i = 0 THEN [store |-> st, raised |-> TRUE]
        ELSE [store |-> loader_save(st, [configs EXCEPT ![i].enabled = TRUE]),
              raised |-> FALSE]

\* ---------------------------------------------------- KnowledgeBaseSearcher

\* the knowledge_bases argument: None, or a list of names
NoKBs == [none |-> TRUE, names |-> <<>>]
KBs(names) == [none |-> FALSE, names |-> names]

\* a filter that does not look at the names
FilterIgnoresNames(configs, kbs) == SelectSeq(configs, LAMBDA c : c.enabled)

\* _filter_configs
filter_configs(configs, kbs) ==
    IF kbs.none THEN SelectSeq(configs, LAMBDA c : c.enabled)
    ELSE SelectSeq(configs, LAMBDA c : c.name \in Range(kbs.names) /\ c.enabled)

\* a threshold filter that keeps every result
AboveThresholdKeepsAll(results, threshold) == results

\* [r for r in results if r.score >= threshold]
AboveThreshold(results, threshold) == SelectSeq(results, LAMBDA r : r.score >= threshold)

\* a sort that puts the later of two equal scores first
SortResultsTiesReversed(all) ==
    LET n == Len(all)
        order == SortDesc(1..n, [i \in 1..n |-> Num(all[n + 1 - i].score)])
    IN  [k \in 1..n |-> all[n + 1 - order[k]]]

\* all_results.sort(key = score, reverse = True)
SortResults(all) ==
    LET order == SortDesc(1..Len(all), [i \in 1..Len(all) |-> Num(all[i].score)])
    IN  [k \in 1..Len(all) |-> all[order[k]]]

RECURSIVE Gather(_, _, _, _, _, _)
\* the loop of search over configs_to_search from position k on: all holds
\* the results gathered, searched the names whose indexer was searched; an
\* exception of one indexer ends the loop and the search
Gather(configs, k, idx, req, all, searched) ==
    IF k > Len(configs) THEN [all |-> all, searched |-> searched, raised |-> FALSE]
    ELSE IF ~configs[k].enabled THEN Gather(configs, k + 1, idx, req, all, searched)
    ELSE LET r == kb_search(idx[configs[k].name], req.query, req.limit, req.dirs)
         IN  IF r.raised
             THEN [all |-> all, searched |-> Append(searched, configs[k].name), raised |-> TRUE]
             ELSE Gather(configs, k + 1, idx, req,
                         all \o AboveThreshold(r.hits, req.threshold),
                         Append(searched, configs[k].name))

\* the arguments of a search
Request(query, kbs, limit, threshold) ==
    [query |-> query, kbs |-> kbs, dirs |-> NoDirs, limit |-> limit, threshold |-> threshold]

\* a search that asks each knowledge base for one result less than the limit
SearcherAsksOneLess(configs, idx, req) ==
    LET G == Gather(filter_configs(configs, req.kbs), 1, idx,
                    [req EXCEPT !.limit = req.limit - 1], <<>>, <<>>)
    IN  IF G.raised THEN [hits |-> <<>>, raised |-> TRUE, searched |-> G.searched]
        ELSE [hits |-> Take(SortResults(G.all), req.limit), raised |-> FALSE,
              searched |-> G.searched]

\* KnowledgeBaseSearcher(configs).search(...): [hits, raised, searched]
searcher_search(configs, idx, req) ==
    IF req.query = <<>> THEN [hits |-> <<>>, raised |-> FALSE, searched |-> <<>>]
    ELSE LET G == Gather(filter_configs(configs, req.kbs), 1, idx, req, <<>>, <<>>)
         IN  IF G.raised THEN [hits |-> <<>>, raised |-> TRUE, searched |-> G.searched]
             ELSE [hits |-> Take(SortResults(G.all), req.limit), raised |-> FALSE,
                   searched |-> G.searched]

\* the threshold a SearchRequest has when none is given: 0.1
DefaultThreshold == 1000

\* SearchRequest validates query (min_length 1) and max_results (1..100)
ValidSearchRequest(query, limit) == query # <<>> /\ limit >= 1 /\ limit <= 100

\* SearchEngine.execute: an empty knowledge_bases list counts as None
execute(req, configs, idx) ==
    searcher_search(configs, idx,
        [req EXCEPT !.kbs = IF req.kbs.none \/ req.kbs.names = <<>> THEN NoKBs ELSE req.kbs])

\* the search command: raised stands for exit status 1
search_command(st, env, idx, query, kb, limit) ==
    IF query = <<>> \/ ~ValidSearchRequest(query, limit)
    THEN [hits |-> <<>>, raised |-> TRUE, searched |-> <<>>]
    ELSE execute(Request(query, IF kb = <<>> THEN NoKBs ELSE KBs(kb), limit, DefaultThreshold),
                 load_global_config(st, env), idx)

\* ------------------------------------------------ federated search: runs

KBNames == {"k1", "k2"}

\* a corpus of three documents "a b", "a c" and "d" under the root k
ThreeDocs(k) == << Doc(<<k, "x">>, "T1", <<"a", " ", "b">>),
                   Doc(<<k, "y">>, "T2", <<"a", " ", "c">>),
                   Doc(<<k, "z">>, "T3", <<"d">>) >>

\* corpus.json as _save_index wrote it
Saved(c) == [exists |-> TRUE, text |-> json_dump(c)]

\* the indexes the runs start from: both knowledge bases indexed, the second
\* never indexed, the second holding one document, the first holding one
\* document without a term, the second with a corpus.json cut off
IndexSets == { [k1 |-> Saved(ThreeDocs("1")), k2 |-> Saved(ThreeDocs("2"))],
               [k1 |-> Saved(ThreeDocs("1")), k2 |-> NoFile],
               [k1 |-> Saved(ThreeDocs("1")), k2 |-> Saved(<< Doc(<<"2", "x">>, "T1", <<"b">>) >>)],
               [k1 |-> Saved(<< Doc(<<"1", "x">>, "T1", <<>>) >>), k2 |-> Saved(ThreeDocs("2"))],
               [k1 |-> Saved(ThreeDocs("1")), k2 |-> Truncated] }

\* "", "b", "a b"
FedQueries == { <<>>, <<"b">>, <<"a", " ", "b">> }
NameLists == { <<>>, <<"k1">>, <<"k2", "k9">> }
Thresholds == {0, DefaultThreshold}
CommandNames == KBNames \cup {"k9"}

FedCall(op) == [op |-> op, name |-> "", query |-> <<>>, kbs |-> NoKBs, limit |-> 0,
                threshold |-> 0, raised |-> FALSE, hits |-> <<>>, searched |-> <<>>,
                exists |-> FALSE, init |-> FALSE, force |-> FALSE,
                configs |-> <<>>, indexed |-> <<>>]

\* both knowledge bases are configured and enabled in the default file; when
\* WINWIN_KB_CONFIG is set, the file it names lists them too
InitFed ==
    /\ indexes \in IndexSets
    /\ environ \in BOOLEAN
    /\ store = [default |-> yaml_dump(<<Config("k1", TRUE), Config("k2", TRUE)>>),
                env |-> IF environ
                        THEN yaml_dump(<<Config("k1", TRUE), Config("k2", TRUE)>>)
                        ELSE <<>>]
    /\ last = FedCall("init")
    /\ corpus = <<>>
    /\ bm25 = NoModel
    /\ file = NoFile
    /\ since_clear = "no"
    /\ scores = <<>>
    /\ tree = <<>>
    /\ index_dir = FALSE

Disable ==
    \E name \in CommandNames :
        LET R == disable(store, name)
        IN  /\ store' = R.store
            /\ last' = [FedCall("disable") EXCEPT !.name = name, !.raised = R.raised]
            /\ UNCHANGED <<corpus, bm25, file, since_clear, scores, environ, indexes,
                           tree, index_dir>>

Enable ==
    \E name \in CommandNames :
        LET R == enable(store, name)
        IN  /\ store' = R.store
            /\ last' = [FedCall("enable") EXCEPT !.name = name, !.raised = R.raised]
            /\ UNCHANGED <<corpus, bm25, file, since_clear, scores, environ, indexes,
                           tree, index_dir>>

\* KnowledgeBaseSearcher(load_global_config()).search(query, knowledge_bases,
\* limit = ..., threshold = ...)
SearcherSearch ==
    \E query \in FedQueries, kbs \in {NoKBs} \cup {KBs(l) : l \in NameLists},
       limit \in 1..MaxLimit, threshold \in Thresholds :
        LET r == searcher_search(load_global_config(store, environ), indexes,
                                 Request(query, kbs, limit, threshold))
        IN  /\ last' = [FedCall("searcher_search") EXCEPT !.query = query, !.kbs = kbs,
                           !.limit = limit, !.threshold = threshold, !.raised = r.raised,
                           !.hits = r.hits, !.searched = r.searched]
            /\ UNCHANGED <<corpus, bm25, file, since_clear, scores, kbvars>>

SearchCommand ==
    \E query \in FedQueries, kb \in NameLists, limit \in Limits :
        LET r == search_command(store, environ, indexes, query, kb, limit)
        IN  /\ last' = [FedCall("search_command") EXCEPT !.query = query,
                           !.kbs = IF kb = <<>> THEN NoKBs ELSE KBs(kb), !.limit = limit,
                           !.threshold = DefaultThreshold, !.raised = r.raised,
                           !.hits = r.hits, !.searched = r.searched]
            /\ UNCHANGED <<corpus, bm25, file, since_clear, scores, kbvars>>

NextFed ==
    \/ Disable
    \/ Enable
    \/ SearcherSearch
    \/ SearchCommand

SpecFed == InitFed /\ [][NextFed]_vars

\* ------------------------------------------------------- paths and names
\* A path is written from the root of the knowledge base on: "docs/a.md".

IsPrefix(d, s) == Len(d) <= Len(s) /\ SubSeq(s, 1, Len(d)) = d
IsSuffix(e, s) == Len(e) <= Len(s) /\ SubSeq(s, Len(s) - Len(e) + 1, Len(s)) = e

\* str.rfind(ch), counted from 1: 0 when ch does not occur
LastIndex(s, ch) ==
    IF \E i \in 1..Len(s) : s[i] = ch
    THEN CHOOSE i \in 1..Len(s) : s[i] = ch /\ \A j \in (i + 1)..Len(s) : s[j] # ch
    ELSE 0

\* Path.name
Name(path) == SubSeq(path, LastIndex(path, "/") + 1, Len(path))

\* Path.suffix: the name from its last dot on, unless that dot starts or
\* ends the name
Suffix(path) ==
    LET n == Name(path)
        d == LastIndex(n, ".")
    IN  IF d > 1 /\ d < Len(n) THEN SubSeq(n, d, Len(n)) ELSE <<>>

\* Path.stem
Stem(path) ==
    LET n == Name(path)
        d == LastIndex(n, ".")
    IN  IF d > 1 /\ d < Len(n) THEN SubSeq(n, 1, d - 1) ELSE n

\* str.lower on the letters file names are written with
LowerChar(ch) ==
    CASE ch = "M" -> "m"
      [] ch = "D" -> "d"
      [] OTHER -> ch

lower(s) == [i \in 1..Len(s) |-> LowerChar(s[i])]

\* ------------------------------------------------- KnowledgeBaseIndexer

TEXT_EXTENSIONS ==
    { <<".", "m", "d">>, <<".", "t", "x", "t">>, <<".", "h", "t", "m", "l">>,
      <<".", "h", "t", "m">>, <<".", "c", "s", "v">>, <<".", "j", "s", "o", "n">>,
      <<".", "x", "m", "l">> }

CONVERT_EXTENSIONS ==
    { <<".", "d", "o", "c", "x">>, <<".", "d", "o", "c">>, <<".", "p", "p", "t", "x">>,
      <<".", "x", "l", "s", "x">>, <<".", "x", "l", "s">>, <<".", "p", "d", "f">>,
      <<".", "j", "p", "g">>, <<".", "j", "p", "e", "g">>, <<".", "p", "n", "g">>,
      <<".", "g", "i", "f">>, <<".", "b", "m", "p">>, <<".", "w", "e", "b", "p">>,
      <<".", "w", "a", "v">>, <<".", "m", "p", "3">>, <<".", "m", "4", "a">>,
      <<".", "m", "p", "4">>, <<".", "a", "v", "i">>, <<".", "m", "o", "v">>,
      <<".", "m", "k", "v">>, <<".", "z", "i", "p">> }

\* config.extensions of the knowledge base being indexed: ".md", ".MD",
\* ".json", ".pdf", ".rst", and ".md" once more
Extensions == << <<".", "m", "d">>, <<".", "M", "D">>, <<".", "j", "s", "o", "n">>,
                 <<".", "p", "d", "f">>, <<".", "r", "s", "t">>, <<".", "m", "d">> >>

\* docs_dir, and the knowledge-base root itself
DocsDir == <<"d", "o", "c", "s", "/">>
RootDir == <<>>

\* <root>/.winwin-index/corpus.json: config.index_path is not set
CorpusFile == <<".", "w", "i", "n", "w", "i", "n", "-", "i", "n", "d", "e", "x", "/",
                "c", "o", "r", "p", "u", "s", ".", "j", "s", "o", "n">>

\* A file is [path, present, ok, content]: ok tells whether reading it (or,
\* for a file that needs conversion, run_markitdown on it) succeeds, content
\* is the text read (or the Markdown the conversion writes).
File(path, ok, content) == [path |-> path, present |-> TRUE, ok |-> ok, content |-> content]
Absent(path) == [path |-> path, present |-> FALSE, ok |-> FALSE, content |-> <<>>]

RECURSIVE JoinContents(_, _)
JoinContents(c, n) == IF n = 0 THEN <<>> ELSE JoinContents(c, n - 1) \o c[n].content

\* corpus.json read as a text file: the brackets of the list around the
\* contents of its documents
ArtifactText(f) == <<"[">> \o JoinContents(json_load(f.text), Len(f.text)) \o <<"]">>

\* the files under the root, in the order the directory scan yields them:
\* the source files present, and corpus.json when it exists
Listing(T, f) ==
    SelectSeq(T, LAMBDA x : x.present) \o
    (IF f.exists THEN << File(CorpusFile, TRUE, ArtifactText(f)) >> ELSE <<>>)

\* search_dir.rglob("*" + ext): the files under the directory whose name
\* ends with ext
rglob(dir, ext, L) ==
    SelectSeq(L, LAMBDA x : IsPrefix(dir, x.path) /\ IsSuffix(ext, Name(x.path)))

\* docs_dir.exists(): some file lies under docs/
DocsExists(L) == \E i \in 1..Len(L) : IsPrefix(DocsDir, L[i].path)

\* search_dirs: docs/ first when it exists, then the root
search_dirs(L) == IF DocsExists(L) THEN <<DocsDir, RootDir>> ELSE <<RootDir>>

\* all_files extended by every match, seen before or not
CollectAll(all, m, k) == all \o SubSeq(m, k, Len(m))

RECURSIVE Collect(_, _, _)
\* all_files after the matches m[k], m[k + 1], ... were offered: a match
\* whose path string is in seen_paths is skipped
Collect(all, m, k) ==
    IF k > Len(m) THEN all
    ELSE Collect(IF \E i \in 1..Len(all) : all[i].path = m[k].path
                 THEN all ELSE Append(all, m[k]),
                 m, k + 1)

RECURSIVE AllFiles(_, _, _, _, _)
\* the two nested loops of _discover_documents, pair p of (search_dir, ext)
\* onwards
AllFiles(L, dirs, exts, p, all) ==
    IF p > Len(dirs) * Len(exts) THEN all
    ELSE LET dir == dirs[((p - 1) \div Len(exts)) + 1]
             ext == exts[((p - 1) % Len(exts)) + 1]
         IN  AllFiles(L, dirs, exts, p + 1, Collect(all, rglob(dir, ext, L), 1))

RECURSIVE SplitFrom(_, _, _, _)
SplitFrom(text, i, cur, acc) ==
    IF i > Len(text) THEN Append(acc, cur)
    ELSE IF text[i] = "\n" THEN SplitFrom(text, i + 1, <<>>, Append(acc, cur))
         ELSE SplitFrom(text, i + 1, Append(cur, text[i]), acc)

\* content.split("\n")
split_lines(text) == SplitFrom(text, 1, <<>>, <<>>)

RECURSIVE strip(_)
\* str.strip
strip(s) ==
    IF s = <<>> THEN s
    ELSE IF IsSpace(s[1]) THEN strip(Tail(s))
    ELSE IF IsSpace(s[Len(s)]) THEN strip(SubSeq(s, 1, Len(s) - 1))
    ELSE s

\* _extract_title: the text of the first line that starts with "# ", else
\* the default
extract_title(content, default) ==
    LET lines == split_lines(content)
        heads == {i \in 1..Len(lines) : IsPrefix(<<"#", " ">>, strip(lines[i]))}
    IN  IF heads = {} THEN default
        ELSE LET i == CHOOSE h \in heads : \A g \in heads : h <= g
                 line == strip(lines[i])
             IN  strip(SubSeq(line, 3, Len(line)))

\* _convert_document: [ok, content], not ok standing for None
convert_document(x) ==
    IF lower(Suffix(x.path)) \notin CONVERT_EXTENSIONS \/ ~x.ok
    THEN [ok |-> FALSE, content |-> <<>>]
    ELSE [ok |-> TRUE, content |-> x.content]

NoDoc == Doc(<<>>, <<>>, <<>>)

\* _load_document: [loaded, attempt, doc]; attempt tells what was tried on
\* the file: "read" (read_text), "convert" (_convert_document) or "none"
load_document(x) ==
    LET ext == lower(Suffix(x.path))
    IN  IF ext \in TEXT_EXTENSIONS
        THEN IF x.ok
             THEN [loaded |-> TRUE, attempt |-> "read",
                   doc |-> Doc(x.path, extract_title(x.content, Stem(x.path)), x.content)]
             ELSE [loaded |-> FALSE, attempt |-> "read", doc |-> NoDoc]
        ELSE IF ext \in CONVERT_EXTENSIONS
        THEN LET md == convert_document(x)
             IN  IF md.ok /\ md.content # <<>>
                 THEN [loaded |-> TRUE, attempt |-> "convert",
                       doc |-> Doc(x.path, extract_title(md.content, Stem(x.path)), md.content)]
                 ELSE [loaded |-> FALSE, attempt |-> "convert", doc |-> NoDoc]
        ELSE [loaded |-> FALSE, attempt |-> "none", doc |-> NoDoc]

\* _discover_documents over the files L: the paths of all_files, what was
\* tried on each, and the documents loaded
discover_documents(L) ==
    LET all == AllFiles(L, search_dirs(L), Extensions, 1, <<>>)
        loads == [i \in 1..Len(all) |-> load_document(all[i])]
        good == SelectSeq(loads, LAMBDA l : l.loaded)
    IN  [files |-> [i \in 1..Len(all) |-> all[i].path],
         attempts |-> [i \in 1..Len(all) |-> loads[i].attempt],
         documents |-> [i \in 1..Len(good) |-> good[i].doc]]

\* the outcome of an index build that ended in the BM25Indexer constructor
BuildFailed(f) == [file |-> f, raised |-> TRUE, discovered |-> FALSE, count |-> 0,
                   files |-> <<>>, attempts |-> <<>>]

\* the outcome of an index build that went through discovery D and ended
\* with the indexer R
Built(D, R) == [file |-> R.file, raised |-> R.raised, discovered |-> TRUE,
                count |-> Len(D.documents), files |-> D.files, attempts |-> D.attempts]

\* create_index without the clear of the old corpus
CreateIndexKeepsCorpus(T, f) ==
    LET I == load_index(f)
    IN  IF I.raised THEN BuildFailed(f)
        ELSE LET D == discover_documents(Listing(T, I.file))
             IN  Built(D, add_documents(I, D.documents, 1))

\* create_index that discovers the documents before it clears the old corpus
CreateIndexDiscoversFirst(T, f) ==
    LET I == load_index(f)
    IN  IF I.raised THEN BuildFailed(f)
        ELSE LET D == discover_documents(Listing(T, I.file))
             IN  Built(D, add_documents(clear(I), D.documents, 1))

\* create_index on the source files T and the corpus.json f: the index
\* directory is made, a BM25Indexer opened on it and cleared, the documents
\* discovered and added; document_count is the number of documents discovered
create_index(T, f) ==
    LET I == load_index(f)
    IN  IF I.raised THEN BuildFailed(f)
        ELSE LET C == clear(I)
                 D == discover_documents(Listing(T, C.file))
             IN  Built(D, add_documents(C, D.documents, 1))

update_index(T, f) == create_index(T, f)

\* get_index_info: [none, count, raised], none standing for None
get_index_info(dir, f) ==
    IF ~dir THEN [none |-> TRUE, count |-> 0, raised |-> FALSE]
    ELSE LET I == load_index(f)
         IN  IF I.raised THEN [none |-> FALSE, count |-> 0, raised |-> TRUE]
             ELSE [none |-> FALSE, count |-> count(I), raised |-> FALSE]

\* the status command on one configured knowledge base: the number of
\* documents it prints; None and any exception of get_index_info count as 0,
\* and the command exits with status 0
status(dir, f) ==
    LET r == get_index_info(dir, f)
    IN  IF r.raised \/ r.none THEN 0 ELSE r.count

\* ------------------------------------------------------- indexing: runs

\* the source files of the runs: docs/a.md, b.MD, c.pdf and n.rst
SourcePaths == << <<"d", "o", "c", "s", "/", "a", ".", "m", "d">>,
                  <<"b", ".", "M", "D">>,
                  <<"c", ".", "p", "d", "f">>,
                  <<"n", ".", "r", "s", "t">> >>

\* what each of them may be: docs/a.md empty, "# t", or not readable as
\* UTF-8; b.MD "b" or empty; c.pdf converted to "c", or failing conversion
Versions(i) ==
    LET p == SourcePaths[i]
    IN  CASE i = 1 -> { File(p, TRUE, <<>>), File(p, TRUE, <<"#", " ", "t">>),
                        File(p, FALSE, <<>>) }
          [] i = 2 -> { File(p, TRUE, <<"b">>), File(p, TRUE, <<>>) }
          [] i = 3 -> { File(p, TRUE, <<"c">>), File(p, FALSE, <<>>) }
          [] OTHER -> { File(p, TRUE, <<"n">>) }

\* the files that get written and removed during a run
Edited == {1, 2, 3}

IdxCall(op) == [op |-> op, raised |-> FALSE, discovered |-> FALSE, count |-> 0,
                none |-> FALSE, files |-> <<>>, attempts |-> <<>>,
                before |-> NoFile, dir_before |-> FALSE]

\* a knowledge base that was never indexed, holding n.rst only
InitIndex ==
    /\ tree = [i \in 1..Len(SourcePaths) |->
                   IF i \in Edited THEN Absent(SourcePaths[i])
                   ELSE File(SourcePaths[i], TRUE, <<"n">>)]
    /\ file = NoFile
    /\ index_dir = FALSE
    /\ last = IdxCall("init")
    /\ corpus = <<>>
    /\ bm25 = NoModel
    /\ since_clear = "no"
    /\ scores = <<>>
    /\ store = NoStore
    /\ environ = FALSE
    /\ indexes = <<>>

\* the record of an index build with outcome R on corpus.json f
BuildCall(op, R, f, dir) ==
    [IdxCall(op) EXCEPT !.raised = R.raised, !.discovered = R.discovered,
        !.count = R.count, !.files = R.files, !.attempts = R.attempts,
        !.before = f, !.dir_before = dir]

CreateIndex ==
    LET R == create_index(tree, file)
    IN  /\ file' = R.file
        /\ index_dir' = TRUE
        /\ last' = BuildCall("create_index", R, file, index_dir)
        /\ UNCHANGED <<corpus, bm25, since_clear, scores, store, environ, indexes, tree>>

UpdateIndex ==
    LET R == update_index(tree, file)
    IN  /\ file' = R.file
        /\ index_dir' = TRUE
        /\ last' = BuildCall("update_index", R, file, index_dir)
        /\ UNCHANGED <<corpus, bm25, since_clear, scores, store, environ, indexes, tree>>

GetIndexInfo ==
    LET r == get_index_info(index_dir, file)
    IN  /\ last' = [IdxCall("get_index_info") EXCEPT !.raised = r.raised, !.none = r.none,
                       !.count = r.count, !.before = file, !.dir_before = index_dir]
        /\ UNCHANGED <<corpus, bm25, file, since_clear, scores, kbvars>>

\* a source file is written, by someone else than the indexer
WriteFile ==
    \E i \in Edited : \E x \in Versions(i) :
        /\ tree' = [tree EXCEPT ![i] = x]
        /\ last' = IdxCall("write_file")
        /\ UNCHANGED <<corpus, bm25, file, since_clear, scores, store, environ, indexes,
                       index_dir>>

\* a source file is removed
RemoveFile ==
    \E i \in Edited :
        /\ tree[i].present
        /\ tree' = [tree EXCEPT ![i] = Absent(SourcePaths[i])]
        /\ last' = IdxCall("remove_file")
        /\ UNCHANGED <<corpus, bm25, file, since_clear, scores, store, environ, indexes,
                       index_dir>>

\* KnowledgeBaseIndexer(config).search(query, limit): the BM25Indexer it
\* constructs makes the index directory
IndexerSearch ==
    \E query \in {<<>>, <<"b">>} :
        LET r == kb_search(file, query, MaxLimit, NoDirs)
        IN  /\ index_dir' = TRUE
            /\ last' = [IdxCall("indexer_search") EXCEPT !.raised = r.raised,
                           !.count = Len(r.hits), !.before = file, !.dir_before = index_dir]
            /\ UNCHANGED <<corpus, bm25, file, since_clear, scores, store, environ, indexes,
                           tree>>

Status ==
    /\ last' = [IdxCall("status") EXCEPT !.count = status(index_dir, file),
                   !.before = file, !.dir_before = index_dir]
    /\ UNCHANGED <<corpus, bm25, file, since_clear, scores, kbvars>>

\* corpus.json is cut off, by a write that did not finish
TruncateCorpus ==
    /\ file.exists
    /\ file' = Truncated
    /\ last' = IdxCall("truncate_corpus")
    /\ UNCHANGED <<corpus, bm25, since_clear, scores, kbvars>>

NextIndex ==
    \/ CreateIndex
    \/ UpdateIndex
    \/ GetIndexInfo
    \/ WriteFile
    \/ RemoveFile
    \/ IndexerSearch
    \/ Status
    \/ TruncateCorpus

SpecIndex == InitIndex /\ [][NextIndex]_vars

\* ------------------------------------------- the configuration commands

\* the source files under the root of the knowledge base of that name: one
\* Markdown file "a b"
KBTree(name) == << File(<<name, ".", "m", "d">>, TRUE, <<"a", " ", "b">>) >>

\* an add command that does not look for the name among the configurations
AddSkipsNameCheck(st, idx, name, exists, init) ==
    IF ~exists THEN [store |-> st, indexes |-> idx, raised |-> TRUE]
    ELSE LET saved == loader_save(st, Append(loader_load(st), Config(name, TRUE)))
         IN  IF ~init THEN [store |-> saved, indexes |-> idx, raised |-> FALSE]
             ELSE LET R == create_index(KBTree(name), idx[name])
                  IN  [store |-> saved, indexes |-> [idx EXCEPT ![name] = R.file],
                       raised |-> R.raised]

\* the add command: [store, indexes, raised], raised standing for exit
\* status 1; exists tells whether the path argument exists, init whether
\* --init is given
add(st, idx, name, exists, init) ==
    IF ~exists \/ FindConfig(loader_load(st), name) # 0
    THEN [store |-> st, indexes |-> idx, raised |-> TRUE]
    ELSE LET saved == loader_save(st, Append(loader_load(st), Config(name, TRUE)))
         IN  IF ~init THEN [store |-> saved, indexes |-> idx, raised |-> FALSE]
             ELSE LET R == create_index(KBTree(name), idx[name])
                  IN  [store |-> saved, indexes |-> [idx EXCEPT ![name] = R.file],
                       raised |-> R.raised]

\* the remove command
remove(st, name) ==
    LET configs == loader_load(st)
        new_configs == SelectSeq(configs, LAMBDA c : c.name # name)
    IN  IF Len(new_configs) = Len(configs) THEN [store |-> st, raised |-> TRUE]
        ELSE [store |-> loader_save(st, new_configs), raised |-> FALSE]

RECURSIVE IndexTargets(_, _, _, _, _)
\* the loop of the index command over targets from position k on: an index
\* build for each, whatever its enabled flag says; indexed holds the names
\* a build was started for.  The outcome R of a build is taken from a
\* one-element set, which has it computed once.
IndexTargets(targets, k, idx, force, indexed) ==
    IF k > Len(targets) THEN [indexes |-> idx, indexed |-> indexed, raised |-> FALSE]
    ELSE LET n == targets[k].name
             After(R) ==
                 IF R.raised
                 THEN [indexes |-> [idx EXCEPT ![n] = R.file],
                       indexed |-> Append(indexed, n), raised |-> TRUE]
                 ELSE IndexTargets(targets, k + 1, [idx EXCEPT ![n] = R.file], force,
                                   Append(indexed, n))
         IN  CHOOSE out \in { After(R) : R \in { IF force THEN create_index(KBTree(n), idx[n])
                                                 ELSE update_index(KBTree(n), idx[n]) } } : TRUE

\* the index command, name "" standing for no name given
index_command(st, env, idx, name, force) ==
    LET configs == load_global_config(st, env)
        targets == IF name # "" THEN SelectSeq(configs, LAMBDA c : c.name = name)
                   ELSE configs
    IN  IF targets = <<>> THEN [indexes |-> idx, indexed |-> <<>>, raised |-> TRUE]
        ELSE IndexTargets(targets, 1, idx, force, <<>>)

\* k1 and k2 are configured and enabled, in the default file and, when
\* WINWIN_KB_CONFIG is set, in the file it names; nothing is indexed yet
InitConfig ==
    /\ environ \in BOOLEAN
    /\ store = [default |-> yaml_dump(<<Config("k1", TRUE), Config("k2", TRUE)>>),
                env |-> IF environ
                        THEN yaml_dump(<<Config("k1", TRUE), Config("k2", TRUE)>>)
                        ELSE <<>>]
    /\ indexes = [n \in CommandNames |-> NoFile]
    /\ last = FedCall("init")
    /\ corpus = <<>>
    /\ bm25 = NoModel
    /\ file = NoFile
    /\ since_clear = "no"
    /\ scores = <<>>
    /\ tree = <<>>
    /\ index_dir = FALSE

Add ==
    \E name \in CommandNames, exists \in BOOLEAN, init \in BOOLEAN :
        LET R == add(store, indexes, name, exists, init)
        IN  /\ store' = R.store
            /\ indexes' = R.indexes
            /\ last' = [FedCall("add") EXCEPT !.name = name, !.exists = exists,
                           !.init = init, !.raised = R.raised]
            /\ UNCHANGED <<corpus, bm25, file, since_clear, scores, environ, tree, index_dir>>

\* the names the remove command is run with: one configured from the start,
\* one that is configured only after an add
RemoveNames == {"k2", "k9"}

Remove ==
    \E name \in RemoveNames :
        LET R == remove(store, name)
        IN  /\ store' = R.store
            /\ last' = [FedCall("remove") EXCEPT !.name = name, !.raised = R.raised]
            /\ UNCHANGED <<corpus, bm25, file, since_clear, scores, environ, indexes,
                           tree, index_dir>>

\* the list command: the configurations it prints
ListKB ==
    /\ last' = [FedCall("list") EXCEPT !.configs = load_global_config(store, environ)]
    /\ UNCHANGED <<corpus, bm25, file, since_clear, scores, kbvars>>

IndexCommand ==
    \E name \in CommandNames \cup {""}, force \in BOOLEAN :
        LET R == index_command(store, environ, indexes, name, force)
        IN  /\ indexes' = R.indexes
            /\ last' = [FedCall("index") EXCEPT !.name = name, !.force = force,
                           !.raised = R.raised, !.indexed = R.indexed]
            /\ UNCHANGED <<corpus, bm25, file, since_clear, scores, store, environ,
                           tree, index_dir>>

NextConfig ==
    \/ Add
    \/ Remove
    \/ Enable
    \/ Disable
    \/ ListKB
    \/ IndexCommand

SpecConfig == InitConfig /\ [][NextConfig]_vars

\* ------------------------------------------- corpus.json cannot be written

\* how the write of _save_index fails: open(corpus_file, "w") raises and the
\* file stays as it is, or json.dump raises after open has emptied the file
WriteFailures == {"open", "dump"}

\* _save_index on the corpus c when the write fails: the exception leaves
\* the method before _build_bm25, self.corpus is c already
save_index_fails(S, c, failure) ==
    [corpus |-> c, bm25 |-> S.bm25,
     file |-> IF failure = "open" THEN S.file ELSE Truncated, raised |-> TRUE]

\* the indexer in use holds what a new indexer on its directory would load:
\* the runs have a write fail on such an indexer
InStep ==
    LET I == load_index(file)
    IN  ~I.raised /\ I.corpus = corpus /\ I.bm25 = bm25

AddDocumentWriteFails ==
    \E path \in Paths, text \in Texts, failure \in WriteFailures :
        /\ InStep
        /\ path \in PathsOf(corpus) \/ Len(corpus) < MaxDocs
        /\ LET R == save_index_fails(Self, Upsert(corpus, path, text[1], text[2]), failure)
           IN  /\ Install(R)
               /\ last' = [Call("add_document_write_fails") EXCEPT !.path = path,
                              !.title = text[1], !.content = text[2],
                              !.existed = path \in PathsOf(corpus), !.raised = R.raised]
        /\ since_clear' = "no"
        /\ UNCHANGED <<scores, kbvars>>

DeleteDocumentWriteFails ==
    \E path \in Paths, failure \in WriteFailures :
        /\ InStep
        /\ LET R == save_index_fails(Self, SelectSeq(corpus, LAMBDA doc : doc.path # path),
                                     failure)
           IN  /\ Install(R)
               /\ last' = [Call("delete_document_write_fails") EXCEPT !.path = path,
                              !.existed = path \in PathsOf(corpus), !.raised = R.raised]
        /\ since_clear' = IF since_clear = "no" THEN "no" ELSE "deleted"
        /\ UNCHANGED <<scores, kbvars>>

NextWrite ==
    \/ AddDocument
    \/ DeleteDocument
    \/ AddDocumentWriteFails
    \/ DeleteDocumentWriteFails

SpecWrite == Init /\ [][NextWrite]_vars

\* ================================================================ claims

\* C1: after any sequence of add_document, add_documents, delete_document
\* and clear calls from the empty corpus, no two corpus entries share a path.
C1_OneDocumentPerPath ==
    \A i, j \in 1..Len(corpus) : i # j => corpus[i].path # corpus[j].path

\* C1 witness: an add_document for a path already present, on a full corpus
C1_Witness ==
    /\ last.op = "add_document"
    /\ last.existed
    /\ Len(corpus) = MaxDocs

\* C2: add_document with a fresh path appends the document and raises the
\* count by one; with a path already present it keeps the count and every
\* document's position and replaces that entry's title and content.
C2_AddDocumentEffect ==
    [][last'.op = "add_document" =>
        LET d == Doc(last'.path, last'.title, last'.content)
        IN  IF last'.path \notin PathsOf(corpus)
            THEN /\ Len(corpus') = Len(corpus) + 1
                 /\ corpus' = Append(corpus, d)
            ELSE /\ Len(corpus') = Len(corpus)
                 /\ \A i \in 1..Len(corpus) :
                        /\ corpus'[i].path = corpus[i].path
                        /\ corpus'[i] = IF corpus[i].path = last'.path THEN d ELSE corpus[i]
    ]_vars

\* C2 witness: an existing entry that is not the last one was replaced by a
\* document with another title
C2_Witness ==
    /\ last.op = "add_document"
    /\ last.existed
    /\ \E i \in 1..(Len(corpus) - 1) : corpus[i].path = last.path /\ corpus[i].title = "T2"

\* C3: after any sequence of add_document, delete_document and clear calls,
\* constructing a new BM25Indexer on the same index directory succeeds and
\* loads the documents of the first instance's corpus, in the same order.
C3_ReloadYieldsSameCorpus ==
    [][last'.op = "load_index" => ~last'.raised /\ corpus' = corpus]_vars

\* an indexer on an empty index directory
Fresh == [corpus |-> <<>>, bm25 |-> NoModel, file |-> NoFile, raised |-> FALSE]

RECURSIVE Replay(_, _)
\* the indexer that was handed the first n documents of c, one by one, and
\* nothing else
Replay(c, n) ==
    IF n = 0 THEN Fresh
    ELSE add_document(Replay(c, n - 1), c[n].path, c[n].title, c[n].content)

\* what a caller can see of an indexer: its documents, its corpus.json and
\* the outcome of every search
Observable(S) ==
    <<S.corpus, S.file,
      [q \in Queries, l \in Limits, d \in DirLists |-> search(S, q, l, d)]>>

\* C4: delete_document(p) followed by add_document(p, t, c) leaves the same
\* documents, order, corpus.json and search results as add_document(p, t, c)
\* on an indexer holding the other documents only; delete_document of an
\* absent path raises nothing and leaves the documents unchanged.
C4_DeleteThenAddIsFreshAdd ==
    \A p \in Paths, text \in Texts :
        LET D == delete_document(Self, p)
            A == add_document(D, p, text[1], text[2])
            base == SelectSeq(corpus, LAMBDA doc : doc.path # p)
            B == add_document(Replay(base, Len(base)), p, text[1], text[2])
        IN  /\ Observable(A) = Observable(B)
            /\ p \notin PathsOf(corpus) => ~D.raised /\ D.corpus = corpus

\* every search of the indexer in use comes back empty, and none raises
AllSearchesEmpty ==
    \A q \in Queries, l \in Limits, d \in DirLists :
        search(Self, q, l, d) = [hits |-> <<>>, raised |-> FALSE]

\* C5 as stated: from clear() until the next add_document, count() is 0,
\* corpus.json does not exist and every search is empty.
C5_ClearedUntilAdd ==
    since_clear # "no" => count(Self) = 0 /\ ~file.exists /\ AllSearchesEmpty

\* C5 amended: from clear() until the next add_document, count() is 0 and
\* every search is empty; corpus.json does not exist until the next
\* add_document or delete_document.
C5_ClearedUntilAddOrDelete ==
    since_clear # "no" =>
        /\ count(Self) = 0
        /\ AllSearchesEmpty
        /\ since_clear = "clear" => ~file.exists

\* C5 witness: a search with a query was run on the cleared indexer
C5_Witness ==
    /\ since_clear = "clear"
    /\ last.op = "search"
    /\ last.query # <<>>
    /\ ~file.exists

\* the paths of a result list
HitPaths(hits) == {hits[k].path : k \in 1..Len(hits)}

\* the scores the indexer in use computes for a query
ScoresFor(query) == get_scores(bm25, tokenize(query))

\* the corpus positions a search would rank: it has a query and a model,
\* the score is not NaN and the path passes the dirs filter
Eligible(query, dirs) ==
    IF query = <<>> \/ ~bm25.present THEN {}
    ELSE {i \in 1..Len(corpus) :
              /\ i <= Len(ScoresFor(query))
              /\ ~ScoresFor(query)[i].nan
              /\ DirMatch(dirs, corpus[i].path)}

Min(a, b) == IF a < b THEN a ELSE b

\* C6: search yields its results in non-increasing score order, at most
\* limit of them, exactly min(limit, number of eligible documents), and no
\* eligible document left out has a higher score than a returned one.
C6_SearchTopLimit ==
    last.op = "search" =>
        LET h == last.hits
            E == Eligible(last.query, last.dirs)
        IN  /\ ~last.raised
            /\ \A k \in 1..(Len(h) - 1) : h[k].score >= h[k + 1].score
            /\ Len(h) <= last.limit
            /\ Len(h) = Min(last.limit, Cardinality(E))
            /\ \A i \in E : corpus[i].path \notin HitPaths(h) =>
                   \A k \in 1..Len(h) : h[k].score >= ScoresFor(last.query)[i].v

\* C7 as stated: the paths of search(q, dirs=[X]) are among the paths of
\* search(q, dirs=None) with the same limit, and each contains X.
C7_DirsSubsetSameLimit ==
    last.op = "search" /\ Len(last.dirs) = 1 =>
        /\ HitPaths(last.hits) \subseteq
               HitPaths(search(Self, last.query, last.limit, NoDirs).hits)
        /\ \A k \in 1..Len(last.hits) : IsSubstring(last.dirs[1], last.hits[k].path)

\* C7 amended: the paths of search(q, dirs=[X]) are among the paths of
\* search(q, dirs=None) run with a limit of at least count(), and each
\* contains X.
C7_DirsSubsetUntruncated ==
    last.op = "search" /\ Len(last.dirs) = 1 =>
        /\ \A l \in count(Self)..(count(Self) + 1) :
               HitPaths(last.hits) \subseteq HitPaths(search(Self, last.query, l, NoDirs).hits)
        /\ \A k \in 1..Len(last.hits) : IsSubstring(last.dirs[1], last.hits[k].path)

\* C7 witness: a search within one directory returned documents, and fewer
\* than the search of the whole corpus returns
C7_Witness ==
    /\ last.op = "search"
    /\ Len(last.dirs) = 1
    /\ last.hits # <<>>
    /\ Len(last.hits) < Len(search(Self, last.query, count(Self), NoDirs).hits)

\* C8: on a non-empty corpus, a search whose query has no term occurring in
\* any document returns no results.
C8_NoMatchNoResults ==
    ( /\ last.op = "search"
      /\ corpus # <<>>
      /\ \A i \in 1..Len(corpus) :
             Range(tokenize(last.query)) \cap Range(tokenize(corpus[i].content)) = {} )
    => last.hits = <<>>

\* the corpus positions the ranking step would rank before position i
Ahead(i, dirs) ==
    {j \in 1..Len(corpus) :
         /\ ~scores[j].nan
         /\ DirMatch(dirs, corpus[j].path)
         /\ \/ scores[j].v > scores[i].v
            \/ scores[j].v = scores[i].v /\ j < i}

\* C9: a document whose score is NaN is never returned; any other document
\* within dirs, of negative score or not, is returned whenever fewer than
\* limit documents rank before it.
C9_NaNDroppedNegativeKept ==
    last.op = "rank" =>
        /\ \A k \in 1..Len(last.hits) : \E i \in 1..Len(corpus) :
               /\ corpus[i].path = last.hits[k].path
               /\ ~scores[i].nan
               /\ scores[i].v = last.hits[k].score
        /\ \A i \in 1..Len(corpus) :
               ( /\ ~scores[i].nan
                 /\ DirMatch(last.dirs, corpus[i].path)
                 /\ Cardinality(Ahead(i, last.dirs)) < last.limit )
               => corpus[i].path \in HitPaths(last.hits)

\* C9 witness: a document of negative score was returned behind one of
\* positive score, while another document scored NaN
C9_Witness ==
    /\ last.op = "rank"
    /\ \E i \in 1..Len(corpus) : scores[i].nan /\ DirMatch(last.dirs, corpus[i].path)
    /\ Len(last.hits) = 2
    /\ last.hits[1].score > 0
    /\ last.hits[2].score < 0

\* C10: on every persisted corpus a BM25Indexer opens, and for every query,
\* KnowledgeBaseIndexer.search completes without raising and returns one
\* SearchResult per hit of the corpus search, in the same order, with the
\* same path, title and score; every score is non-negative.
C10_KbSearchWrapsEveryHit ==
    last.op = "kb_search" /\ ~load_index(file).raised =>
        /\ ~last.raised
        /\ last.hits = search(load_index(file), last.query, last.limit, last.dirs).hits
        /\ \A k \in 1..Len(last.hits) : last.hits[k].score >= 0

\* the configurations a search of the current state is given
GlobalConfigs == load_global_config(store, environ)

\* the paths of the documents persisted for the knowledge base of that name
DocPaths(name) ==
    IF indexes[name].exists /\ json_parses(indexes[name].text)
    THEN PathsOf(json_load(indexes[name].text)) ELSE {}

\* the configuration is enabled and, when names are given, named
Participates(c, kbs) == c.enabled /\ (kbs.none \/ c.name \in Range(kbs.names))

\* C11: every result of KnowledgeBaseSearcher.search is a document of a
\* knowledge base that is enabled and, when a name list is given, named in
\* it; the knowledge bases searched are those, all of them when the search
\* completes; the search comes out as if the disabled and the unnamed
\* knowledge bases were not configured at all, error or not.
C11_OnlyEnabledNamedSearched ==
    last.op = "searcher_search" =>
        LET taking == SelectSeq(GlobalConfigs, LAMBDA c : Participates(c, last.kbs))
            names == {taking[i].name : i \in 1..Len(taking)}
            alone == searcher_search(taking, indexes,
                         Request(last.query, last.kbs, last.limit, last.threshold))
        IN  /\ \A k \in 1..Len(last.hits) :
                   \E n \in names : last.hits[k].path \in DocPaths(n)
            /\ Range(last.searched) \subseteq names
            /\ ~last.raised /\ last.query # <<>> => Range(last.searched) = names
            /\ last.raised = alone.raised
            /\ last.hits = alone.hits

\* C11 witness: a search returned documents while a disabled knowledge base
\* was configured whose index no search gets through
C11_Witness ==
    /\ last.op = "searcher_search"
    /\ last.kbs.none
    /\ last.hits # <<>>
    /\ \E i \in 1..Len(GlobalConfigs) :
           /\ ~GlobalConfigs[i].enabled
           /\ kb_search(indexes[GlobalConfigs[i].name], last.query, last.limit, NoDirs).raised

\* no result of the last search is a document of a knowledge base that the
\* disable command has switched off
DisabledKeptOut ==
    last.op \in {"searcher_search", "search_command"} =>
        \A i \in 1..Len(loader_load(store)) :
            ~loader_load(store)[i].enabled =>
                HitPaths(last.hits) \cap DocPaths(loader_load(store)[i].name) = {}

\* C12: a disable command that succeeds leaves the persisted corpus of every
\* knowledge base as it was, and from then on (until an enable command for
\* it) no federated search returns a document of the disabled knowledge base.
C12_DisabledStaysOut ==
    [][ /\ (last'.op = "disable" /\ ~last'.raised) =>
               /\ indexes' = indexes
               /\ \E i \in 1..Len(loader_load(store')) :
                      /\ loader_load(store')[i].name = last'.name
                      /\ ~loader_load(store')[i].enabled
        /\ DisabledKeptOut'
    ]_vars

\* C13: every result KnowledgeBaseSearcher.search returns has a score of at
\* least the threshold of the request.
C13_ResultsMeetThreshold ==
    last.op \in {"searcher_search", "search_command"} =>
        \A k \in 1..Len(last.hits) : last.hits[k].score >= last.threshold

\* C13 witness: a search with a positive threshold returned documents, and
\* fewer than the same search with threshold 0 returns
C13_Witness ==
    /\ last.op = "searcher_search"
    /\ last.threshold > 0
    /\ last.hits # <<>>
    /\ Len(last.hits) < Len(searcher_search(GlobalConfigs, indexes,
                                Request(last.query, last.kbs, last.limit, 0)).hits)

RECURSIVE SurvivorsOf(_, _)
\* the results of the first n configured knowledge bases that the last
\* search keeps: per knowledge base taking part, the results of its own
\* search that reach the threshold, in configuration order
SurvivorsOf(configs, n) ==
    IF n = 0 THEN <<>>
    ELSE SurvivorsOf(configs, n - 1) \o
         ( IF Participates(configs[n], last.kbs)
           THEN SelectSeq(kb_search(indexes[configs[n].name], last.query, last.limit,
                                    NoDirs).hits,
                          LAMBDA r : r.score >= last.threshold)
           ELSE <<>> )

\* the place of all[i] in the merged order: behind every result of higher
\* score and every earlier result of equal score
PlaceIn(all, i) ==
    1 + Cardinality({j \in 1..Len(all) :
                         \/ all[j].score > all[i].score
                         \/ all[j].score = all[i].score /\ j < i})

\* C14: KnowledgeBaseSearcher.search returns the concatenated per-KB
\* surviving results in non-increasing score order, equal scores in the
\* order of the concatenation, cut to the first limit of them.
C14_MergedSortedTruncated ==
    last.op = "searcher_search" /\ ~last.raised =>
        LET all == SurvivorsOf(GlobalConfigs, Len(GlobalConfigs))
        IN  /\ Len(last.hits) = Min(last.limit, Len(all))
            /\ \A i \in 1..Len(all) :
                   PlaceIn(all, i) <= last.limit => last.hits[PlaceIn(all, i)] = all[i]

\* C14 witness: a search over two knowledge bases was cut to its limit, and
\* its two best results, one of each knowledge base, have the same score
C14_Witness ==
    /\ last.op = "searcher_search"
    /\ last.limit > 1
    /\ Len(last.hits) = last.limit
    /\ Len(SurvivorsOf(GlobalConfigs, Len(GlobalConfigs))) > last.limit
    /\ last.hits[1].score = last.hits[2].score
    /\ last.hits[1].path[1] = "1"
    /\ last.hits[2].path[1] = "2"

\* the documents of corpus.json as it stands
PersistedDocs ==
    IF file.exists /\ json_parses(file.text) THEN json_load(file.text) ELSE <<>>

\* the last call was an index build
LastBuilt == last.op \in {"create_index", "update_index"}

\* the source files present that load: a text-native file that can be read,
\* or a file of a conversion format whose conversion yields text
Loadable ==
    {i \in 1..Len(tree) :
         /\ tree[i].present
         /\ tree[i].ok
         /\ \/ lower(Suffix(tree[i].path)) \in TEXT_EXTENSIONS
            \/ lower(Suffix(tree[i].path)) \in CONVERT_EXTENSIONS /\ tree[i].content # <<>>}

\* corpus.json holds one document per loadable source file, with the path
\* and the content of that file, and no other document
CorpusIsLoadable ==
    /\ Len(PersistedDocs) = Cardinality(Loadable)
    /\ \A i \in Loadable : \E k \in 1..Len(PersistedDocs) :
           /\ PersistedDocs[k].path = tree[i].path
           /\ PersistedDocs[k].content = tree[i].content

\* C15: after create_index() returns, the corpus holds exactly the documents
\* that load from the source files present, whatever it held before: no
\* document of a file that is gone, and the current content of every file.
C15_RebuildMatchesSources ==
    LastBuilt /\ ~last.raised => CorpusIsLoadable

\* C15 witness: create_index returned on a corpus that held a document whose
\* file is gone and a document whose file has other content now
C15_Witness ==
    /\ last.op = "create_index"
    /\ ~last.raised
    /\ last.before.exists
    /\ \E k \in 1..Len(last.before.text) :
           LoadDoc(last.before.text[k]).path \notin PathsOf(PersistedDocs)
    /\ \E k \in 1..Len(last.before.text), j \in 1..Len(PersistedDocs) :
           /\ LoadDoc(last.before.text[k]).path = PersistedDocs[j].path
           /\ LoadDoc(last.before.text[k]).content # PersistedDocs[j].content

\* C16: update_index() ends as create_index() on the same files and index
\* does; and an index build that returned, run again on unchanged source
\* files, returns the same document count and leaves the same corpus.json
\* (in <root>/.winwin-index, where discovery could find it).
C16_UpdateIsCreateIdempotent ==
    [][ /\ last'.op = "update_index" =>
               LET R == create_index(tree, file)
               IN  /\ file' = R.file
                   /\ last'.raised = R.raised
                   /\ last'.count = R.count
        /\ (last'.op \in {"create_index", "update_index"} /\ ~last'.raised) =>
               LET again == create_index(tree', file')
                   up == update_index(tree', file')
               IN  /\ ~again.raised /\ again.count = last'.count /\ again.file = file'
                   /\ ~up.raised /\ up.count = last'.count /\ up.file = file'
    ]_vars

\* C16 witness: update_index returned on an index built before, with
\* corpus.json in place and .json among the extensions
C16_Witness ==
    /\ last.op = "update_index"
    /\ ~last.raised
    /\ last.before.exists
    /\ last.count >= 2
    /\ file = last.before
    /\ \E k \in 1..Len(Extensions) : IsSuffix(Extensions[k], CorpusFile)

\* C17: whatever files are discovered and whichever of them fail to be read
\* or converted, create_index() completes without raising, the corpus holds
\* exactly the files that loaded, and document_count is their number.
C17_FailuresSkippedBuildCompletes ==
    LastBuilt =>
        /\ ~last.raised
        /\ CorpusIsLoadable
        /\ last.count = Cardinality(Loadable)

\* C18: on every discovered file, read_text is tried when its extension is
\* text-native, and the conversion is tried otherwise; none is dropped
\* without either.
C18_EveryConfiguredFileTried ==
    LastBuilt /\ last.discovered =>
        \A i \in 1..Len(last.files) :
            last.attempts[i] =
                IF lower(Suffix(last.files[i])) \in TEXT_EXTENSIONS THEN "read" ELSE "convert"

\* the source files present whose name ends with a configured extension
Matching ==
    {tree[i].path : i \in {j \in 1..Len(tree) :
         /\ tree[j].present
         /\ \E k \in 1..Len(Extensions) : IsSuffix(Extensions[k], Name(tree[j].path))}}

\* C19: discovery returns every file under docs/ or the root that matches a
\* configured extension, each exactly once.
C19_DiscoveredOnce ==
    LastBuilt /\ last.discovered =>
        /\ Range(last.files) = Matching
        /\ Len(last.files) = Cardinality(Matching)

\* C19 witness: docs/a.md, found from docs/ and from the root and matched by
\* two extension entries, was discovered next to a file of the root
C19_Witness ==
    /\ last.op = "create_index"
    /\ last.discovered
    /\ \E i \in 1..Len(last.files) :
           /\ IsPrefix(DocsDir, last.files[i])
           /\ Cardinality({k \in 1..Len(Extensions) :
                               IsSuffix(Extensions[k], last.files[i])}) = 2
    /\ \E i \in 1..Len(last.files) : ~IsPrefix(DocsDir, last.files[i])

\* C20: get_index_info() returns None exactly when the index directory does
\* not exist; else it returns the number of documents of corpus.json, right
\* after an index build that returned the document_count of that build; it
\* changes neither corpus.json nor the source files.
C20_IndexInfoReportsPersistedCount ==
    [][ last'.op = "get_index_info" =>
            /\ last'.none <=> ~index_dir
            /\ index_dir => ~last'.raised /\ last'.count = Len(PersistedDocs)
            /\ (LastBuilt /\ ~last.raised) => last'.count = last.count
            /\ file' = file
            /\ tree' = tree
    ]_vars

\* the request of the last federated search
LastRequest == Request(last.query, last.kbs, last.limit, last.threshold)

\* the configured knowledge bases whose own search of the last request
\* returns
Answering ==
    SelectSeq(GlobalConfigs,
              LAMBDA c : ~kb_search(indexes[c.name], last.query, last.limit, NoDirs).raised)

\* C21: a federated search in which loading or searching one knowledge base
\* fails does not raise; it returns the results of the other participating
\* knowledge bases, as the search over those alone does.
C21_OneFailureKeepsTheRest ==
    last.op = "searcher_search" =>
        /\ ~last.raised
        /\ last.hits = searcher_search(Answering, indexes, LastRequest).hits

\* corpus.json is there and json.load does not get through it
Unparseable == file.exists /\ ~json_parses(file.text)

\* C22: with corpus.json absent, a BM25Indexer opens without error on an
\* empty corpus: count 0, every search empty, and the index info and the
\* status report say 0 documents; with corpus.json present and unparseable,
\* opening raises, and get_index_info, search and the status command give
\* the error to their caller instead of reporting 0 documents.
C22_AbsentIsEmptyUnparseableIsError ==
    /\ ~file.exists =>
           LET I == load_index(file)
           IN  /\ ~I.raised
               /\ count(I) = 0
               /\ \A q \in Queries, l \in Limits :
                      search(I, q, l, NoDirs) = [hits |-> <<>>, raised |-> FALSE]
               /\ last.op \in {"get_index_info", "status", "indexer_search"} =>
                      ~last.raised /\ last.count = 0
    /\ Unparseable =>
           /\ load_index(file).raised
           /\ last.op \in {"get_index_info", "status", "indexer_search"} => last.raised

\* C28: KnowledgeBaseIndexer.search changes neither what get_index_info
\* reports (None for a knowledge base that has no index) nor corpus.json.
C28_SearchLeavesIndexAsIs ==
    [][ last'.op = "indexer_search" =>
            /\ get_index_info(index_dir', file') = get_index_info(index_dir, file)
            /\ file' = file
    ]_vars

\* C26: in every state reached through load, add_document, delete_document
\* and clear, the ranking model is absent iff the corpus is empty, and else
\* holds the tokens of exactly the corpus documents, position by position,
\* so that no search meets a score without a corpus entry.
C26_ModelDerivedFromCorpus ==
    /\ bm25.present <=> corpus # <<>>
    /\ bm25.present =>
           /\ Len(bm25.docs) = Len(corpus)
           /\ \A i \in 1..Len(corpus) : bm25.docs[i] = tokenize(corpus[i].content)
    /\ \A q \in Queries, l \in Limits : ~search(Self, q, l, NoDirs).raised

QualifyingIn(f) ==
    LET I == load_index(f)
    IN  SelectSeq(search(I, last.query, count(I), NoDirs).hits,
                  LAMBDA r : r.score >= last.threshold)

RECURSIVE QualifyingOf(_, _)
\* those documents of the first n configured knowledge bases, for the ones
\* that take part in the last search
QualifyingOf(configs, n) ==
    IF n = 0 THEN <<>>
    ELSE QualifyingOf(configs, n - 1) \o
         ( IF Participates(configs[n], last.kbs)
           THEN QualifyingIn(indexes[configs[n].name]) ELSE <<>> )

\* C27: the list a federated search returns is the first limit entries of
\* the score-ordered list of all documents, of all participating knowledge
\* bases, that score at least the threshold (equal scores in configuration
\* and corpus order): no such document left out scores higher than a
\* returned one, although each knowledge base is cut to limit on its own.
C27_GlobalTopResults ==
    last.op = "searcher_search" /\ ~last.raised /\ last.query # <<>> =>
        LET all == QualifyingOf(GlobalConfigs, Len(GlobalConfigs))
        IN  /\ last.hits = Take(SortResults(all), last.limit)
            /\ \A i \in 1..Len(all) :
                   (\A k \in 1..Len(last.hits) : last.hits[k].path # all[i].path) =>
                       \A k \in 1..Len(last.hits) : last.hits[k].score >= all[i].score

\* C27 witness: each of two knowledge bases holds more qualifying documents
\* than the limit, and the search returned documents of both
C27_Witness ==
    /\ last.op = "searcher_search"
    /\ ~last.raised
    /\ \A n \in KBNames : Len(QualifyingIn(indexes[n])) > last.limit
    /\ \E k \in 1..Len(last.hits) : last.hits[k].path[1] = "1"
    /\ \E k \in 1..Len(last.hits) : last.hits[k].path[1] = "2"

\* the names in a list of configurations are pairwise distinct
UniqueNames(configs) ==
    \A i, j \in 1..Len(configs) : i # j => configs[i].name # configs[j].name

\* C23: from a configuration with unique names, every add, remove, enable
\* and disable command leaves the names of the stored configuration
\* pairwise distinct; add with a name that is configured exits non-zero and
\* leaves the stored configuration, and every index, unchanged.
C23_NamesStayUnique ==
    [][ /\ UniqueNames(loader_load(store'))
        /\ (last'.op = "add" /\ FindConfig(loader_load(store), last'.name) # 0) =>
               /\ last'.raised
               /\ store' = store
               /\ indexes' = indexes
    ]_vars

\* C23 witness: add was refused for a name that is configured, its path
\* existing, after another knowledge base had been added
C23_Witness ==
    /\ last.op = "add"
    /\ last.raised
    /\ last.exists
    /\ FindConfig(loader_load(store), last.name) # 0
    /\ Len(loader_load(store)) = Cardinality(CommandNames)

\* C24: the index command builds no index for a knowledge base whose
\* configuration says enabled = false, as a federated search searches none.
C24_DisabledNotIndexed ==
    last.op = "index" =>
        \A i \in 1..Len(GlobalConfigs) :
            ~GlobalConfigs[i].enabled => GlobalConfigs[i].name \notin Range(last.indexed)

\* C29: the list command that follows an add, remove, enable or disable
\* command that succeeded prints the configurations that command stored,
\* WINWIN_KB_CONFIG set or not.
C29_OneConfigurationStore ==
    [][ ( /\ last.op \in {"add", "remove", "enable", "disable"}
          /\ ~last.raised
          /\ last'.op = "list" )
        => last'.configs = loader_load(store)
    ]_vars

\* C30: an add_document or delete_document whose write of corpus.json fails
\* raises and leaves the indexer as it was: the same corpus and the same
\* ranking model, so that every search returns what it returned before the
\* call and none raises for a corpus shorter than the model.
C30_WriteFailureLeavesIndexerAsWas ==
    [][ last'.op \in {"add_document_write_fails", "delete_document_write_fails"} =>
            /\ last'.raised
            /\ corpus' = corpus
            /\ bm25' = bm25
            /\ \A q \in Queries :
                   LET before == search(Self, q, MaxLimit, NoDirs)
                       after == search([corpus |-> corpus', bm25 |-> bm25', file |-> file',
                                        raised |-> FALSE], q, MaxLimit, NoDirs)
                   IN  ~before.raised => after = before
    ]_vars

====
